---- MODULE Spec2Model ----
(***************************************************************************)
(* Model of the Silent Shard offline recovery tool.                        *)
(*                                                                         *)
(*   src/unnamed/part_000   canonicalSerialize (canonical JSON encoder)    *)
(*   src/src/index.ts       getUint32Array, getDerivationPath, getEntropy, *)
(*                          decSnapBackup, verifyChecksum, exportKeys      *)
(*                                                                         *)
(* JavaScript strings are sequences of one-character strings, byte arrays  *)
(* are sequences of 0..255.  The third-party primitives (Keccak-256,       *)
(* SLIP-10 derivation, libsodium, secp256k1, JSON.parse) are not part of   *)
(* the repository; they are deterministic stand-ins, described where they  *)
(* are defined.                                                            *)
(***************************************************************************)
EXTENDS Integers, Sequences, FiniteSets, TLC

VARIABLES
    \* exportKeys (src/src/index.ts:154-212)
    mnemonicPhrase, backup, pc, idx, entropyHex, data, privateKey,
    privateKeys, result, error, console, steps,
    \* canonicalSerialize (src/unnamed/part_000)
    objA, objB, encA, encB,
    \* getEntropy's path computation (src/src/index.ts:42-97)
    hash, indices, derivationPath

pvars == <<mnemonicPhrase, backup, pc, idx, entropyHex, data, privateKey,
           privateKeys, result, error, console, steps>>
evars == <<objA, objB, encA, encB>>
dvars == <<hash, indices, derivationPath>>
vars == <<pvars, evars, dvars>>

----------------------------------------------------------------------------
(* Bounds of the model *)

\* Most members of the top-level object handed to canonicalSerialize.
MaxMembers == 3
\* Most wallet entries of a backup.
MaxWallet == 2
\* Shares 0..MaxShare are combined, besides those around the curve order.
MaxShare == 12

----------------------------------------------------------------------------
(* Characters and strings *)

Digits == <<"0", "1", "2", "3", "4", "5", "6", "7", "8", "9">>
Lower == <<"a", "b", "c", "d", "e", "f", "g", "h", "i", "j", "k", "l", "m",
           "n", "o", "p", "q", "r", "s", "t", "u", "v", "w", "x", "y", "z">>
Upper == <<"A", "B", "C", "D", "E", "F", "G", "H", "I", "J", "K", "L", "M",
           "N", "O", "P", "Q", "R", "S", "T", "U", "V", "W", "X", "Y", "Z">>

IndexIn(c, s) == CHOOSE i \in 1..Len(s) : s[i] = c
InSeq(c, s) == \E i \in 1..Len(s) : s[i] = c

Punctuation == <<" ", "!", "\"", "'", "+", ",", "-", ".", "/", ":", "=", "@", "[",
                 "\\", "]", "_", "{", "}">>
PunctuationCodes == <<32, 33, 34, 39, 43, 44, 45, 46, 47, 58, 61, 64, 91, 92, 93, 95,
                      123, 125>>

Alphabet ==
    { Digits[i] : i \in 1..10 } \cup { Upper[i] : i \in 1..26 }
        \cup { Lower[i] : i \in 1..26 } \cup { Punctuation[i] : i \in 1..Len(Punctuation) }

\* UTF-16 code unit of each character of the model's alphabet (all ASCII).
CodeTable ==
    [c \in Alphabet |->
        IF InSeq(c, Digits) THEN 47 + IndexIn(c, Digits)
        ELSE IF InSeq(c, Upper) THEN 64 + IndexIn(c, Upper)
        ELSE IF InSeq(c, Lower) THEN 96 + IndexIn(c, Lower)
        ELSE PunctuationCodes[IndexIn(c, Punctuation)]]

CodeOf(c) == CodeTable[c]

\* String.prototype.startsWith / slice(n) / substring(n)
startsWith(s, p) == Len(s) >= Len(p) /\ SubSeq(s, 1, Len(p)) = p
slice(s, n) == SubSeq(s, n + 1, Len(s))

\* a < b in the order of Array.prototype.sort() without a comparator:
\* code unit by code unit, a proper prefix first.
RECURSIVE StrLess(_, _)
StrLess(a, b) ==
    IF b = <<>> THEN FALSE
    ELSE IF a = <<>> THEN TRUE
    ELSE IF CodeOf(Head(a)) # CodeOf(Head(b))
         THEN CodeOf(Head(a)) < CodeOf(Head(b))
    ELSE StrLess(Tail(a), Tail(b))

\* Decimal rendering of a non-negative integer (Number.prototype.toString).
RECURSIVE NatToStr(_)
NatToStr(n) ==
    IF n < 10 THEN <<Digits[n + 1]>>
    ELSE Append(NatToStr(n \div 10), Digits[(n % 10) + 1])

NumToStr(n) == IF n < 0 THEN <<"-">> \o NatToStr(-n) ELSE NatToStr(n)

----------------------------------------------------------------------------
(* Bytes and hexadecimal text *)

HexDigits == <<"0", "1", "2", "3", "4", "5", "6", "7", "8", "9",
               "a", "b", "c", "d", "e", "f">>
HexUpper == <<"0", "1", "2", "3", "4", "5", "6", "7", "8", "9",
              "A", "B", "C", "D", "E", "F">>

IsHexDigit(c) == InSeq(c, HexDigits) \/ InSeq(c, HexUpper)
HexVal(c) == IF InSeq(c, HexDigits) THEN IndexIn(c, HexDigits) - 1
             ELSE IndexIn(c, HexUpper) - 1

\* Two lowercase hex digits per byte, no prefix.
RECURSIVE HexOf(_)
HexOf(bytes) ==
    IF bytes = <<>> THEN <<>>
    ELSE <<HexDigits[(Head(bytes) \div 16) + 1], HexDigits[(Head(bytes) % 16) + 1]>>
         \o HexOf(Tail(bytes))

\* bytesToHex of @metamask/utils: lowercase hex behind a "0x" prefix (the
\* prefix is what lines 199-201 count on: substring(26) of the rendering of a
\* 32-byte hash leaves the 40 digits of its last 20 bytes).
bytesToHex(bytes) == <<"0", "x">> \o HexOf(bytes)

\* stringToBytes of @metamask/utils: the UTF-8 bytes (the alphabet is ASCII).
stringToBytes(s) == [i \in 1..Len(s) |-> CodeOf(s[i])]

\* The bytes of an even-length string of hex digits.
RECURSIVE BytesOfHex(_)
BytesOfHex(s) ==
    IF s = <<>> THEN <<>>
    ELSE <<HexVal(s[1]) * 16 + HexVal(s[2])>> \o BytesOfHex(SubSeq(s, 3, Len(s)))

AllHex(s) == \A i \in 1..Len(s) : IsHexDigit(s[i])

\* @metamask/utils: a hex string is an optional "0x" and one or more digits.
strip0x(s) == IF startsWith(s, <<"0", "x">>) \/ startsWith(s, <<"0", "X">>)
              THEN slice(s, 2) ELSE s
isHexString(s) == Len(strip0x(s)) >= 1 /\ AllHex(strip0x(s))

\* hexToBytes of @metamask/utils takes "0x" as no bytes and throws for any
\* other text that is no hex string.
hexToBytesOk(s) == s \in { <<"0", "x">>, <<"0", "X">> } \/ isHexString(s)

\* hexToBytes of @metamask/utils, for a text it takes: an odd number of digits
\* is padded with a leading zero.
hexToBytes(s) ==
    LET d == strip0x(s)
    IN BytesOfHex(IF Len(d) % 2 = 1 THEN <<"0">> \o d ELSE d)

\* Uint8Array.prototype.toString(): the bytes in decimal, joined by commas.
RECURSIVE BytesToString(_)
BytesToString(bytes) ==
    IF bytes = <<>> THEN <<>>
    ELSE IF Len(bytes) = 1 THEN NatToStr(bytes[1])
    ELSE NatToStr(bytes[1]) \o <<",">> \o BytesToString(Tail(bytes))

\* sodium.from_hex: an even number of hex digits, no prefix, or it throws.
sodiumHexOk(s) == Len(s) % 2 = 0 /\ AllHex(s)

\* Keccak-256 is a library primitive.  Its stand-in is a deterministic
\* function from byte strings to 32 bytes that separates the inputs of the
\* model; nothing below relies on any other property of it.
RECURSIVE KeccakSum(_, _, _)
KeccakSum(bytes, from, to) ==
    IF from > to THEN 0
    ELSE IF from = to THEN ((from % 251) + 1) * (bytes[from] + 1)
    ELSE LET mid == (from + to) \div 2
         IN (KeccakSum(bytes, from, mid) + KeccakSum(bytes, mid + 1, to)) % 65521

KeccakFold(bytes, seed) == (KeccakSum(bytes, 1, Len(bytes)) + seed + Len(bytes)) % 65521

keccak256(bytes) ==
    LET f == KeccakFold(bytes, 7)
    IN [i \in 1..32 |-> ((f \div i) + f * i + 13 * i) % 256]

----------------------------------------------------------------------------
(* getUint32Array, getDerivationPath: src/src/index.ts:31-63                *)
(*                                                                         *)
(* A JavaScript number too wide for the integers of TLC is the record      *)
(* [hi, lo] that stands for hi * 2^16 + lo, with lo in 0..65535; hi is     *)
(* negative for a negative number.                                         *)
(***************************************************************************)

W16 == 256 * 256

\* const MAGIC_VALUE = 0xd36e6170; const HARDENED_VALUE = 0x80000000;
MAGIC_VALUE == [hi |-> 54126, lo |-> 24944]
HARDENED_VALUE == [hi |-> 32768, lo |-> 0]

\* Bitwise OR of two values in 0..65535.
RECURSIVE Or16(_, _, _)
Or16(a, b, bits) ==
    IF bits = 0 THEN 0
    ELSE (IF a % 2 = 1 \/ b % 2 = 1 THEN 1 ELSE 0)
         + 2 * Or16(a \div 2, b \div 2, bits - 1)

\* x | y: both operands to 32 bits, the result a signed 32-bit integer.
BitOr(x, y) ==
    LET hiU == Or16(x.hi % W16, y.hi % W16, 16)
    IN [hi |-> IF hiU >= 32768 THEN hiU - W16 ELSE hiU,
        lo |-> Or16(x.lo, y.lo, 16)]

\* x >>> 0: the value as an unsigned 32-bit integer.
ToUint32(x) == [hi |-> x.hi % W16, lo |-> x.lo]

\* x - y
Minus(x, y) ==
    IF x.lo >= y.lo THEN [hi |-> x.hi - y.hi, lo |-> x.lo - y.lo]
    ELSE [hi |-> x.hi - y.hi - 1, lo |-> x.lo - y.lo + W16]

IsNegative(x) == x.hi < 0

\* -x, for x # 0 negative
Negate(x) ==
    IF x.lo = 0 THEN [hi |-> -x.hi, lo |-> 0]
    ELSE [hi |-> -x.hi - 1, lo |-> W16 - x.lo]

\* Decimal digits of x >= 0.
RECURSIVE WideToStr(_)
WideToStr(x) ==
    IF x.hi = 0 THEN NatToStr(x.lo)
    ELSE LET rem == (x.hi % 10) * W16 + x.lo
         IN Append(WideToStr([hi |-> x.hi \div 10, lo |-> rem \div 10]),
                   Digits[(rem % 10) + 1])

\* `${x}`
NumberText(x) == IF IsNegative(x) THEN <<"-">> \o WideToStr(Negate(x))
                 ELSE WideToStr(x)

\* view.getUint32(byteOffset): big-endian (index.ts:47)
getUint32(bytes, byteOffset) ==
    [hi |-> bytes[byteOffset + 1] * 256 + bytes[byteOffset + 2],
     lo |-> bytes[byteOffset + 3] * 256 + bytes[byteOffset + 4]]

\* A plausible slip: the result of | is pushed as it is, a signed integer.
HardenedIndexSigned(uint32) == BitOr(uint32, HARDENED_VALUE)

\* (uint32 | HARDENED_VALUE) >>> 0 (index.ts:48)
HardenedIndex(uint32) == ToUint32(BitOr(uint32, HARDENED_VALUE))

\* index.ts:42-52
getUint32Array(bytes) ==
    [index \in 1..8 |-> HardenedIndex(getUint32(bytes, (index - 1) * 4))]

\* `bip32:${index - HARDENED_VALUE}'` for each index (index.ts:61-63)
getDerivationPath(ixs) ==
    [i \in 1..Len(ixs) |->
        <<"b", "i", "p", "3", "2", ":">>
            \o NumberText(Minus(ixs[i], HARDENED_VALUE)) \o <<"'">>]

\* The derivationPath argument of index.ts:92-95.
DerivationPathOf(mnemonic, ixs) ==
    << <<"b", "i", "p", "3", "9", ":">> \o mnemonic >>
        \o getDerivationPath(<<MAGIC_VALUE>> \o ixs)

----------------------------------------------------------------------------
(* canonicalSerialize: src/unnamed/part_000                                *)
(*                                                                         *)
(* A JavaScript value is a record tagged by t:                             *)
(*   "null" "undefined" "symbol" "nan" "infinity"                          *)
(*   "boolean" (b)   "number" (n, a finite integer)   "string" (s)         *)
(*   "array" (e, the elements in index order)                              *)
(*   "object" (m, the own enumerable members in Object.keys order, each    *)
(*             [k |-> key, v |-> value], keys distinct)                    *)
(*   "hook" (j, an object whose toJSON() returns j)                        *)
(***************************************************************************)

Null == [t |-> "null"]
Undefined == [t |-> "undefined"]
Bool(b) == [t |-> "boolean", b |-> b]
Num(n) == [t |-> "number", n |-> n]
Str(s) == [t |-> "string", s |-> s]
Arr(e) == [t |-> "array", e |-> e]
Obj(m) == [t |-> "object", m |-> m]
Hook(j) == [t |-> "hook", j |-> j]
Member(k, v) == [k |-> k, v |-> v]

\* JSON.stringify of a string: quoted, '"' and '\' escaped.
RECURSIVE Escape(_)
Escape(s) ==
    IF s = <<>> THEN <<>>
    ELSE (IF Head(s) \in {"\"", "\\"} THEN <<"\\", Head(s)>> ELSE <<Head(s)>>)
         \o Escape(Tail(s))

\* JSON.stringify(object) for null and the primitives (part_000:12).  For
\* undefined and symbols JSON.stringify returns undefined, which the template
\* literals of lines 23 and 35 render as the text "undefined".
JSONstringify(v) ==
    CASE v.t = "null" -> <<"n", "u", "l", "l">>
      [] v.t = "boolean" -> IF v.b THEN <<"t", "r", "u", "e">>
                            ELSE <<"f", "a", "l", "s", "e">>
      [] v.t = "number" -> NumToStr(v.n)
      [] v.t = "string" -> <<"\"">> \o Escape(v.s) \o <<"\"">>
      [] v.t \in {"undefined", "symbol"} ->
            <<"u", "n", "d", "e", "f", "i", "n", "e", "d">>

\* Object.keys(object): the keys in the object's own order.
ObjectKeys(object) == [i \in 1..Len(object.m) |-> object.m[i].k]

\* object[cv]
Get(object, key) ==
    IF \E i \in 1..Len(object.m) : object.m[i].k = key
    THEN object.m[CHOOSE i \in 1..Len(object.m) : object.m[i].k = key].v
    ELSE Undefined

\* Array.prototype.sort() of strings, as an insertion sort.
RECURSIVE InsertSorted(_, _)
InsertSorted(k, s) ==
    IF s = <<>> THEN <<k>>
    ELSE IF StrLess(k, Head(s)) THEN <<k>> \o s
    ELSE <<Head(s)>> \o InsertSorted(k, Tail(s))

RECURSIVE sort(_)
sort(s) == IF s = <<>> THEN <<>> ELSE InsertSorted(Head(s), sort(Tail(s)))

\* A plausible slip: the keys are taken in Object.keys order, unsorted.
SortedKeysUnsorted(object) == ObjectKeys(object)

\* Object.keys(object).sort() (part_000:28-29)
SortedKeys(object) == sort(ObjectKeys(object))

\* Whether the call throws: NaN or an infinity reached by the recursion
\* (part_000:3-9).  Dropped members and replaced elements are never reached.
RECURSIVE canonicalThrows(_)
canonicalThrows(object) ==
    CASE object.t \in {"nan", "infinity"} -> TRUE
      [] object.t = "hook" -> canonicalThrows(object.j)
      [] object.t = "array" ->
            \E i \in 1..Len(object.e) :
                /\ object.e[i].t \notin {"undefined", "symbol"}
                /\ canonicalThrows(object.e[i])
      [] object.t = "object" ->
            \E i \in 1..Len(object.m) :
                /\ object.m[i].v.t \notin {"undefined", "symbol"}
                /\ canonicalThrows(object.m[i].v)
      [] OTHER -> FALSE

RECURSIVE canonicalSerialize(_)
RECURSIVE ReduceArray(_, _, _)
RECURSIVE ReduceObject(_, _, _)

\* The reduce over the array's elements (part_000:20-24): t is the text so
\* far, ci the index (from 1 here) of the next element.
ReduceArray(object, t, ci) ==
    IF ci > Len(object.e) THEN t
    ELSE LET cv == object.e[ci]
             comma == IF ci = 1 THEN <<>> ELSE <<",">>
             value == IF cv.t \in {"undefined", "symbol"} THEN Null ELSE cv
         IN ReduceArray(object, t \o comma \o canonicalSerialize(value), ci + 1)

\* The reduce over the sorted keys (part_000:30-38).
ReduceObject(object, keys, t) ==
    IF keys = <<>> THEN t
    ELSE LET cv == Head(keys)
         IN IF Get(object, cv).t \in {"undefined", "symbol"}
            THEN ReduceObject(object, Tail(keys), t)
            ELSE LET comma == IF Len(t) = 0 THEN <<>> ELSE <<",">>
                 IN ReduceObject(object, Tail(keys),
                        t \o comma \o canonicalSerialize(Str(cv)) \o <<":">>
                          \o canonicalSerialize(Get(object, cv)))

canonicalSerialize(object) ==
    IF object.t \notin {"object", "array", "hook"}
    THEN JSONstringify(object)
    ELSE IF object.t = "hook" THEN canonicalSerialize(object.j)
    ELSE IF object.t = "array"
         THEN <<"[">> \o ReduceArray(object, <<>>, 1) \o <<"]">>
    ELSE <<"{">> \o ReduceObject(object, SortedKeys(object), <<>>) \o <<"}">>

----------------------------------------------------------------------------
(* Encoding two values that differ only in member insertion order *)

\* The value below a node: a member's value, an element, a toJSON() result.
Children(v) ==
    CASE v.t = "object" -> [i \in 1..Len(v.m) |-> v.m[i].v]
      [] v.t = "array" -> v.e
      [] v.t = "hook" -> <<v.j>>
      [] OTHER -> <<>>

RECURSIVE ValidPath(_, _)
ValidPath(v, p) ==
    IF p = <<>> THEN TRUE
    ELSE IF Head(p) \in 1..Len(Children(v))
         THEN ValidPath(Children(v)[Head(p)], Tail(p))
    ELSE FALSE

RECURSIVE Node(_, _)
Node(v, p) == IF p = <<>> THEN v ELSE Node(Children(v)[Head(p)], Tail(p))

\* v with members i and i+1 of the object at path p exchanged.
RECURSIVE SwapMembersAt(_, _, _)
SwapMembersAt(v, p, i) ==
    IF p = <<>>
    THEN Obj([j \in 1..Len(v.m) |->
                IF j = i THEN v.m[i + 1] ELSE IF j = i + 1 THEN v.m[i] ELSE v.m[j]])
    ELSE LET sub == SwapMembersAt(Children(v)[Head(p)], Tail(p), i)
         IN CASE v.t = "object" ->
                    Obj([v.m EXCEPT ![Head(p)] = Member(v.m[Head(p)].k, sub)])
              [] v.t = "array" -> Arr([v.e EXCEPT ![Head(p)] = sub])
              [] v.t = "hook" -> Hook(sub)

KeyA == <<"a">>
KeyB == <<"b">>
KeyList == <<KeyB, KeyA, <<"B">>, <<"a", "b">>, <<"a", "\"">>, <<"A", "b">>>>

InnerObj == Obj(<<Member(KeyB, Num(1)), Member(KeyA, Null)>>)

\* Values a member of the top-level object may hold: plain ones, and ones
\* that are nested, converted by toJSON() or rejected.
PlainPool == { Num(-7), Str(<<"a", "\"">>), Undefined }
NestedPool ==
    { [t |-> "nan"],
      Arr(<<Undefined, InnerObj, Bool(TRUE)>>),
      Obj(<<Member(<<"B">>, Bool(FALSE)), Member(KeyA, Arr(<<InnerObj>>))>>),
      Hook(InnerObj) }

\* Top-level objects of up to MaxMembers members, at most one of them from
\* NestedPool, keyed by the first keys of KeyList in that (unsorted) order.
TopValues ==
    UNION { { Obj([i \in 1..n |-> Member(KeyList[i], f[i])]) :
                f \in { g \in [1..n -> PlainPool \cup NestedPool] :
                          Cardinality({ i \in 1..n : g[i] \in NestedPool }) <= 1 } } :
            n \in 0..MaxMembers }

\* Paths into a value of TopValues.
Paths ==
    {<<>>} \cup { <<i>> : i \in 1..MaxMembers }
           \cup { <<i, j>> : i \in 1..MaxMembers, j \in 1..3 }
           \cup { <<i, j, k>> : i \in 1..MaxMembers, j \in 1..3, k \in 1..2 }

NotEncoded == [done |-> FALSE]
Encoded(v) ==
    IF canonicalThrows(v) THEN [done |-> TRUE, ok |-> FALSE]
    ELSE [done |-> TRUE, ok |-> TRUE, s |-> canonicalSerialize(v)]

EncIdle == objA = Null /\ objB = Null /\ encA = NotEncoded /\ encB = NotEncoded

EncInit ==
    /\ objA \in TopValues
    /\ objB = objA
    /\ encA = NotEncoded
    /\ encB = NotEncoded

\* The same value built with two neighbouring members inserted the other way
\* round, at any depth.
Reinsert ==
    /\ ~encB.done
    /\ \E p \in Paths :
        /\ ValidPath(objB, p)
        /\ Node(objB, p).t = "object"
        /\ \E i \in 1..(Len(Node(objB, p).m) - 1) :
               objB' = SwapMembersAt(objB, p, i)
    /\ UNCHANGED <<objA, encA, encB, pvars, dvars>>

Encode ==
    /\ ~encB.done
    /\ encA' = Encoded(objA)
    /\ encB' = Encoded(objB)
    /\ UNCHANGED <<objA, objB, pvars, dvars>>

DerIdle == hash = <<>> /\ indices = <<>> /\ derivationPath = <<>>

NoResult == [returned |-> FALSE]
NoError == [thrown |-> FALSE]

PipeIdle ==
    /\ mnemonicPhrase = <<>>
    /\ backup = Null
    /\ pc = "idle"
    /\ idx = 0
    /\ entropyHex = <<>>
    /\ data = <<>>
    /\ privateKey = -1
    /\ privateKeys = <<>>
    /\ result = NoResult
    /\ error = NoError
    /\ console = <<>>
    /\ steps = <<>>

InitEncode == EncInit /\ PipeIdle /\ DerIdle
NextEncode == Reinsert \/ Encode
SpecEncode == InitEncode /\ [][NextEncode]_vars

----------------------------------------------------------------------------
(* C8 *)

IsAscending(keys) ==
    \A i \in 1..(Len(keys) - 1) : StrLess(keys[i], keys[i + 1])

\* The members of an object that are encoded, in the order they are encoded.
EmittedKeys(object) ==
    SelectSeq(SortedKeys(object),
              LAMBDA k : Get(object, k).t \notin {"undefined", "symbol"})

RECURSIVE JoinElements(_, _)
JoinElements(e, i) ==
    IF i > Len(e) THEN <<>>
    ELSE (IF i = 1 THEN <<>> ELSE <<",">>)
         \o canonicalSerialize(IF e[i].t \in {"undefined", "symbol"}
                               THEN Null ELSE e[i])
         \o JoinElements(e, i + 1)

\* C8: two values that differ only in the order their members were inserted,
\* at any depth, have the same canonical encoding; every object's members are
\* encoded in ascending key order and every array's elements in index order.
C8_InsertionOrderIndependent ==
    encB.done =>
        /\ encA = encB
        /\ \A p \in Paths :
             (ValidPath(objB, p) /\ ~canonicalThrows(Node(objB, p))) =>
                LET node == Node(objB, p)
                IN /\ node.t = "object" =>
                        /\ IsAscending(EmittedKeys(node))
                        /\ \A k \in 1..Len(node.m) :
                             node.m[k].v.t # "undefined" =>
                                InSeq(node.m[k].k, EmittedKeys(node))
                   /\ node.t = "array" =>
                        canonicalSerialize(node)
                            = <<"[">> \o JoinElements(node.e, 1) \o <<"]">>

\* Reached: a value was re-inserted in another order at the top and inside it,
\* and both were encoded.
C8_Witness ==
    /\ encB.done /\ encB.ok
    /\ objA # objB
    /\ Len(objB.m) = MaxMembers
    /\ \E i \in 1..Len(objB.m) :
          /\ objB.m[i].v.t \in {"array", "object"}
          /\ objB.m[i].v # Get(objA, objB.m[i].k)
----------------------------------------------------------------------------
(* The path computation of getEntropy, for any digest *)

\* 32-bit words a digest is put together from: the top bit clear (nearly no
\* bit set, all bits but the top one) and the top bit set.
WordPool == { <<0, 0, 0, 1>>, <<127, 255, 255, 255>>, <<255, 2, 128, 4>> }

Concat8(w) == w[1] \o w[2] \o w[3] \o w[4] \o w[5] \o w[6] \o w[7] \o w[8]

Digests ==
    { Concat8(w) : w \in [1..8 -> WordPool] }
        \cup { Concat8([i \in 1..8 |-> <<128, 0, 0, 0>>]),
               Concat8([i \in 1..8 |-> <<0, 0, 0, 0>>]),
               Concat8([i \in 1..8 |-> <<255, 255, 255, 255>>]) }

DerMnemonic == <<"m">>

DerInit ==
    /\ hash \in Digests
    /\ indices = <<>>
    /\ derivationPath = <<>>

\* index.ts:88
DeriveIndices ==
    /\ indices = <<>>
    /\ indices' = getUint32Array(hash)
    /\ UNCHANGED <<hash, derivationPath, pvars, evars>>

\* index.ts:92-95
BuildPath ==
    /\ indices # <<>>
    /\ derivationPath = <<>>
    /\ derivationPath' = DerivationPathOf(DerMnemonic, indices)
    /\ UNCHANGED <<hash, indices, pvars, evars>>

InitDerive == DerInit /\ PipeIdle /\ EncIdle
NextDerive == DeriveIndices \/ BuildPath
SpecDerive == InitDerive /\ [][NextDerive]_vars

----------------------------------------------------------------------------
(* C10 *)

\* The i-th big-endian word of the digest with its top bit cleared.
WordLow31(digest, i) ==
    (digest[4 * i - 3] % 128) * 16777216 + digest[4 * i - 2] * 65536
        + digest[4 * i - 1] * 256 + digest[4 * i]

\* C10: the digest yields exactly 8 indices, the i-th being the i-th
\* big-endian 32-bit word with bit 31 set, an unsigned value in [2^31, 2^32);
\* the path has 9 hardened components behind the mnemonic root, the magic
\* constant 0xd36e6170 first and then the 8 indices in digest order, each
\* rendered as index - 0x80000000, a number in [0, 2^31).
C10_HardenedIndices ==
    /\ indices # <<>> =>
          /\ Len(indices) = 8
          /\ \A i \in 1..8 :
                /\ indices[i].hi \in 32768..65535
                /\ indices[i].lo \in 0..65535
                /\ indices[i].hi
                     = 32768 + (hash[4 * i - 3] % 128) * 256 + hash[4 * i - 2]
                /\ indices[i].lo = hash[4 * i - 1] * 256 + hash[4 * i]
    /\ derivationPath # <<>> =>
          /\ Len(derivationPath) = 10
          /\ derivationPath[1] = <<"b", "i", "p", "3", "9", ":">> \o DerMnemonic
          /\ derivationPath[2]
               = <<"b", "i", "p", "3", "2", ":", "1", "3", "9", "9", "7", "4",
                   "2", "8", "3", "2", "'">>
          /\ \A i \in 1..8 :
                /\ WordLow31(hash, i) \in 0..2147483647
                /\ derivationPath[i + 2]
                     = <<"b", "i", "p", "3", "2", ":">>
                         \o NatToStr(WordLow31(hash, i)) \o <<"'">>

\* Reached: a path built from a digest that holds words with the top bit
\* clear and words with it set, in different places.
C10_Witness ==
    /\ derivationPath # <<>>
    /\ hash[1] < 128
    /\ hash[5] >= 128
    /\ SubSeq(hash, 9, 12) # SubSeq(hash, 13, 16)
----------------------------------------------------------------------------
(* Library primitives used by exportKeys                                    *)

\* String.prototype.split("."): the pieces between the dots, empty ones kept.
RECURSIVE SplitFrom(_, _, _)
SplitFrom(s, i, piece) ==
    IF i > Len(s) THEN <<piece>>
    ELSE IF s[i] = "." THEN <<piece>> \o SplitFrom(s, i + 1, <<>>)
    ELSE SplitFrom(s, i + 1, Append(piece, s[i]))

split(s) == SplitFrom(s, 1, <<>>)

\* String.prototype.trim(), the white space of the alphabet being " ".
RECURSIVE TrimStart(_)
TrimStart(s) == IF s # <<>> /\ Head(s) = " " THEN TrimStart(Tail(s)) ELSE s

RECURSIVE TrimEnd(_)
TrimEnd(s) ==
    IF s # <<>> /\ s[Len(s)] = " " THEN TrimEnd(SubSeq(s, 1, Len(s) - 1)) ELSE s

trim(s) == TrimEnd(TrimStart(s))

\* Base64: sodium.base64_variants.URLSAFE_NO_PADDING (the default of
\* from_base64) and ORIGINAL.
B64Url == Upper \o Lower \o Digits \o <<"-", "_">>
B64Original == Upper \o Lower \o Digits \o <<"+", "/">>

RECURSIVE B64Encode(_, _)
B64Encode(bytes, abc) ==
    IF bytes = <<>> THEN <<>>
    ELSE IF Len(bytes) = 1
         THEN <<abc[(bytes[1] \div 4) + 1], abc[(bytes[1] % 4) * 16 + 1]>>
    ELSE IF Len(bytes) = 2
         THEN <<abc[(bytes[1] \div 4) + 1],
                abc[(bytes[1] % 4) * 16 + (bytes[2] \div 16) + 1],
                abc[(bytes[2] % 16) * 4 + 1]>>
    ELSE <<abc[(bytes[1] \div 4) + 1],
           abc[(bytes[1] % 4) * 16 + (bytes[2] \div 16) + 1],
           abc[(bytes[2] % 16) * 4 + (bytes[3] \div 64) + 1],
           abc[(bytes[3] % 64) + 1]>>
         \o B64Encode(SubSeq(bytes, 4, Len(bytes)), abc)

RECURSIVE B64Decode(_, _)
B64Decode(s, abc) ==
    LET v(i) == IndexIn(s[i], abc) - 1
    IN IF Len(s) < 2 THEN <<>>
       ELSE IF Len(s) = 2 THEN <<v(1) * 4 + (v(2) \div 16)>>
       ELSE IF Len(s) = 3
            THEN <<v(1) * 4 + (v(2) \div 16), (v(2) % 16) * 16 + (v(3) \div 4)>>
       ELSE <<v(1) * 4 + (v(2) \div 16), (v(2) % 16) * 16 + (v(3) \div 4),
              (v(3) % 4) * 64 + v(4)>>
            \o B64Decode(SubSeq(s, 5, Len(s)), abc)

RECURSIVE StripPadding(_)
StripPadding(s) ==
    IF s # <<>> /\ s[Len(s)] = "=" THEN StripPadding(SubSeq(s, 1, Len(s) - 1))
    ELSE s

Pad(s) == CASE Len(s) % 4 = 2 -> s \o <<"=", "=">>
            [] Len(s) % 4 = 3 -> s \o <<"=">>
            [] OTHER -> s

to_base64_url(bytes) == B64Encode(bytes, B64Url)
to_base64_original(bytes) == Pad(B64Encode(bytes, B64Original))

\* sodium.from_base64(s): throws unless s is unpadded URL-safe Base64.
base64UrlOk(s) == Len(s) % 4 # 1 /\ \A i \in 1..Len(s) : InSeq(s[i], B64Url)
from_base64_url(s) == B64Decode(s, B64Url)

\* sodium.from_base64(s, sodium.base64_variants.ORIGINAL): padded Base64.
base64OriginalOk(s) ==
    /\ Len(s) % 4 = 0
    /\ Len(s) - Len(StripPadding(s)) <= 2
    /\ Len(StripPadding(s)) % 4 # 1
    /\ \A i \in 1..Len(StripPadding(s)) : InSeq(StripPadding(s)[i], B64Original)
from_base64_original(s) == B64Decode(StripPadding(s), B64Original)

\* The secret box of libsodium is a library primitive.  Its stand-in seals a
\* message as one authentication byte, computed from key, nonce and message,
\* followed by the message; opening recomputes the byte.  (The real tag is
\* 16 bytes and the message is encrypted; nonce and key lengths are not
\* checked by the stand-in.)
BoxTag(m, n, k) == KeccakFold(k \o n \o m, 11) % 256
crypto_secretbox_easy(m, n, k) == <<BoxTag(m, n, k)>> \o m
secretboxOpens(c, n, k) == c # <<>> /\ c[1] = BoxTag(Tail(c), n, k)
crypto_secretbox_open_easy(c, n, k) == Tail(c)

\* TextDecoder.decode and JSON.parse are library primitives.  Documents are
\* named, not spelled out: the text "x" followed by hex digits h stands for
\* the JSON text of {"keyShareData":{"x1":"h"}}, "y" followed by h for
\* {"x2":{"scalar":"h"}}, "e" for {} and "u" for {"keyShareData":{},"x2":{}};
\* any other text is not JSON.
CharOfCode(b) == CHOOSE c \in Alphabet : CodeOf(c) = b
decodable(bytes) == \A i \in 1..Len(bytes) : \E c \in Alphabet : CodeOf(c) = bytes[i]
decode(bytes) == [i \in 1..Len(bytes) |-> CharOfCode(bytes[i])]

K_keyShareData == <<"k", "e", "y", "S", "h", "a", "r", "e", "D", "a", "t", "a">>
K_x1 == <<"x", "1">>
K_x2 == <<"x", "2">>
K_scalar == <<"s", "c", "a", "l", "a", "r">>

jsonOk(text) ==
    \/ text \in { <<"e">>, <<"u">> }
    \/ Len(text) >= 1 /\ text[1] \in {"x", "y"}

JSONparse(text) ==
    CASE text = <<"e">> -> Obj(<<>>)
      [] text = <<"u">> ->
            Obj(<<Member(K_keyShareData, Obj(<<>>)), Member(K_x2, Obj(<<>>))>>)
      [] text[1] = "x" ->
            Obj(<<Member(K_keyShareData, Obj(<<Member(K_x1, Str(Tail(text)))>>))>>)
      [] text[1] = "y" ->
            Obj(<<Member(K_x2, Obj(<<Member(K_scalar, Str(Tail(text)))>>))>>)

\* hexToBigInt of @metamask/utils: the value of a hex string.
RECURSIVE HexValue(_, _)
HexValue(s, acc) ==
    IF s = <<>> THEN acc ELSE HexValue(Tail(s), acc * 16 + HexVal(Head(s)))

hexToBigInt(s) == HexValue(strip0x(s), 0)

\* BigInt.prototype.toString(16)
RECURSIVE ToHexDigits(_)
ToHexDigits(n) ==
    IF n < 16 THEN <<HexDigits[n + 1]>>
    ELSE Append(ToHexDigits(n \div 16), HexDigits[(n % 16) + 1])

\* bigIntToHex of @metamask/utils
bigIntToHex(n) == <<"0", "x">> \o ToHexDigits(n)

\* bigIntToBytes of @metamask/utils: the bytes of the hex rendering.
bigIntToBytes(n) == hexToBytes(ToHexDigits(n))

\* secp256k1.curve.n (index.ts:195).  The group order of secp256k1 is a
\* 256-bit prime, beyond the integers of TLC; a small prime stands in.
CurveN == 251

\* secp256k1.getPublicKey(key, false) is a library primitive: an uncompressed
\* point, the tag byte 4 and 64 coordinate bytes.  The stand-in derives the
\* coordinates from the key bytes.  The library rejects 0, which is no private
\* key, and may reject a key that is not rendered in 32 bytes, which
\* bigIntToBytes does not guarantee: both outcomes are modelled for any key
\* other than 0.
PublicKeyOutcomes(n) == IF n = 0 THEN {FALSE} ELSE {TRUE, FALSE}
getPublicKey(key) ==
    <<4>> \o keccak256(<<1>> \o key) \o keccak256(<<2>> \o key)

\* index.ts:198-199: the address of a private key, without its "0x".
AddressOfKey(n) ==
    LET publicKey == getPublicKey(bigIntToBytes(n))
    IN SubSeq(bytesToHex(keccak256(Tail(publicKey))), 27, 66)

----------------------------------------------------------------------------
(* getEntropy, decSnapBackup, verifyChecksum: src/src/index.ts:78-146       *)

\* A call either returns a value or throws an Error with a message, given as
\* its pieces: literal text and the messages it wraps.
Returns(v) == [ok |-> TRUE, value |-> v]
Throws(message) == [ok |-> FALSE, message |-> message]

\* const SNAP_ID = "npm:@silencelaboratories/silent-shard-snap";
SNAP_ID ==
    <<"n", "p", "m", ":", "@", "s", "i", "l", "e", "n", "c", "e", "l", "a", "b",
      "o", "r", "a", "t", "o", "r", "i", "e", "s", "/", "s", "i", "l", "e", "n",
      "t", "-", "s", "h", "a", "r", "d", "-", "s", "n", "a", "p">>

\* Mnemonic phrases BIP-39 accepts; any other makes the derivation throw.
ValidMnemonics == { <<"m", "1">>, <<"m", "2">> }

RECURSIVE JoinPath(_)
JoinPath(q) ==
    IF q = <<>> THEN <<>>
    ELSE IF Len(q) = 1 THEN q[1]
    ELSE q[1] \o <<"/">> \o JoinPath(Tail(q))

\* SLIP10Node.fromDerivationPath is a library primitive.  Its stand-in
\* derives a 32-byte private key from the text of the path, and throws for a
\* phrase that is no mnemonic.
SLIP10PrivateKey(q) == bytesToHex(keccak256(stringToBytes(JoinPath(q))))

\* index.ts:78-104.  A node derived from a phrase always has a private key,
\* so the throw of lines 99-101 is never taken.
getEntropy(mnemonic, snapId, salt) ==
    LET snapIdBytes == stringToBytes(snapId)
        saltBytes == stringToBytes(salt)
        digest == keccak256(snapIdBytes \o keccak256(saltBytes))
        computedDerivationPath == getUint32Array(digest)
    IN IF mnemonic \notin ValidMnemonics
       THEN Throws(<<"Invalid mnemonic phrase">>)
       ELSE Returns(SLIP10PrivateKey(
                DerivationPathOf(mnemonic, computedDerivationPath)))

\* crypto_secretbox_KEYBYTES of libsodium
crypto_secretbox_KEYBYTES == 32

\* What the try block of decSnapBackup throws, "" if it returns
\* (index.ts:117-131).
decSnapBackupCause(entropy, snapBackup) ==
    LET hex == IF startsWith(entropy, <<"0", "x">>) THEN slice(entropy, 2)
               ELSE entropy
        array == split(snapBackup)
    IN IF Len(array) # 3 THEN "Invalid backup data"
       ELSE IF ~sodiumHexOk(hex) THEN "invalid input"
       ELSE IF ~sodiumHexOk(array[2]) THEN "invalid input"
       ELSE IF ~base64UrlOk(array[3]) THEN "invalid input"
       ELSE IF ~secretboxOpens(from_base64_url(array[3]), BytesOfHex(array[2]),
                    SubSeq(BytesOfHex(hex), 1, crypto_secretbox_KEYBYTES))
       THEN "wrong secret key for the given ciphertext"
       ELSE ""

\* The plaintext the try block returns when it does not throw.
decSnapBackupOpen(entropy, snapBackup) ==
    LET hex == IF startsWith(entropy, <<"0", "x">>) THEN slice(entropy, 2)
               ELSE entropy
        array == split(snapBackup)
    IN crypto_secretbox_open_easy(
           from_base64_url(array[3]), BytesOfHex(array[2]),
           SubSeq(BytesOfHex(hex), 1, crypto_secretbox_KEYBYTES))

\* A plausible slip: the component count is checked outside the try block,
\* so its error is not wrapped.
decSnapBackupUnwrapped(entropy, snapBackup) ==
    IF Len(split(snapBackup)) # 3 THEN Throws(<<"Invalid backup data">>)
    ELSE IF decSnapBackupCause(entropy, snapBackup) # ""
    THEN Throws(<<"Failed to decrypt backup data: ",
                  decSnapBackupCause(entropy, snapBackup)>>)
    ELSE Returns(decSnapBackupOpen(entropy, snapBackup))

\* index.ts:112-136: whatever the try block throws is caught and thrown
\* again behind "Failed to decrypt backup data: ".
decSnapBackup(entropy, snapBackup) ==
    LET errorMsg == decSnapBackupCause(entropy, snapBackup)
    IN IF errorMsg # ""
       THEN Throws(<<"Failed to decrypt backup data: ", errorMsg>>)
       ELSE Returns(decSnapBackupOpen(entropy, snapBackup))

K_version == <<"v", "e", "r", "s", "i", "o", "n">>
K_time == <<"t", "i", "m", "e">>
K_wallet == <<"w", "a", "l", "l", "e", "t">>
K_hash == <<"h", "a", "s", "h">>
K_address == <<"a", "d", "d", "r", "e", "s", "s">>
K_keyshare == <<"k", "e", "y", "s", "h", "a", "r", "e">>
K_remote == <<"r", "e", "m", "o", "t", "e">>

\* let { hash: checksum, ...backupWithoutHash } = backup;
Without(object, key) ==
    Obj(SelectSeq(object.m, LAMBDA mem : mem.k # key))

\* The Keccak-256 of the canonical text of the backup without its hash.
ComputedHash(b) ==
    keccak256(stringToBytes(canonicalSerialize(Without(b, K_hash))))

\* A plausible slip: two hex digits of the hash are dropped as well.
verifyChecksumDrops2(b) ==
    LET stored == Get(b, K_hash).s
        checksum == IF startsWith(stored, <<"0", "x">>) THEN slice(stored, 2)
                    ELSE stored
    IN slice(bytesToHex(ComputedHash(b)), 4) = checksum

\* index.ts:138-146
verifyChecksum(b) ==
    LET stored == Get(b, K_hash).s
        hashText == bytesToHex(ComputedHash(b))
        checksum == IF startsWith(stored, <<"0", "x">>) THEN slice(stored, 2)
                    ELSE stored
    IN slice(hashText, 2) = checksum

----------------------------------------------------------------------------
(* exportKeys: src/src/index.ts:154-212                                     *)
(*                                                                         *)
(* pc is the place of the one call in flight: "verify" (lines 155-160),    *)
(* "entropy" (163-170), "decrypt" (173), "combine" (176-208) for the entry *)
(* at index idx, "return" (211); "done" once it returned and "failed" once *)
(* it threw.  steps records what ran, console what console.assert printed. *)
(***************************************************************************)

Wallet(b) == Get(b, K_wallet).e
Field(walletBackup, key) == Get(walletBackup, key).s

Step(op, i, ok) == [op |-> op, i |-> i, ok |-> ok]

\* The place after the entry at index i of n was pushed, or before the first.
LoopTo(i, n) == IF i <= n THEN [pc |-> "entropy", idx |-> i]
                ELSE [pc |-> "return", idx |-> i]

\* A plausible slip: the result of verifyChecksum is not acted on.
AfterVerifyNoGate(verified, n) == LoopTo(1, n)

\* index.ts:156-161: a failed check throws before the loop is entered.
AfterVerify(verified, n) ==
    IF ~verified THEN [pc |-> "failed", idx |-> 0] ELSE LoopTo(1, n)

\* A plausible change: an entry that fails is skipped.
AfterEntryErrorSkip(i, n) == LoopTo(i + 1, n)

\* index.ts:161-209: nothing in the loop catches; the first throw ends the
\* call.
AfterEntryError(i, n) == [pc |-> "failed", idx |-> i]

\* A string of characters as one piece of message text.
RECURSIVE TextOf(_)
TextOf(s) == IF s = <<>> THEN "" ELSE Head(s) \o TextOf(Tail(s))

\* A plausible change: the error is thrown again with the entry's address.
UncaughtWithAddress(message, walletBackup) ==
    <<"Failed to recover ", TextOf(Field(walletBackup, K_address)), ": ">>
        \o message

\* index.ts:161-209: the error of a call inside the loop reaches the caller
\* of exportKeys as it was thrown.
Uncaught(message, walletBackup) == message

\* A plausible change: the list is built newest first.
pushFront(list, item) == <<item>> \o list

\* privateKeys.push(item)
push(list, item) == Append(list, item)

\* A plausible slip: the product is not reduced.
combineSharesNoMod(x1, x2) == x1 * x2

\* const privateKey = (x1 * x2) % secp256k1.curve.n; (index.ts:195)
combineShares(x1, x2) == (x1 * x2) % CurveN

\* A plausible change: an address mismatch throws.
AssertThrowsStrict(condition) == ~condition

\* console.assert(condition, message) prints and never throws
\* (index.ts:200-203).
AssertThrows(condition) == FALSE

AssertMessage ==
    "Recovered private key, but there's an address mismatch. Keyshare pair is invalid. This is a bug."

\* index.ts:176-192: the two shares of an entry, or what reading them throws.
parseShares(plain, keyshare) ==
    IF ~(decodable(plain) /\ jsonOk(decode(plain)))
    THEN Throws(<<"Unexpected token in JSON">>)
    ELSE LET snapKeyshare == JSONparse(decode(plain))
         IN IF Get(snapKeyshare, K_keyShareData).t = "undefined"
            THEN Throws(<<"Cannot read properties of undefined (reading 'x1')">>)
            ELSE LET x1Hex == Get(Get(snapKeyshare, K_keyShareData), K_x1)
                 IN IF x1Hex.t # "string" \/ ~isHexString(x1Hex.s)
                    THEN Throws(<<"Value must be a hexadecimal string.">>)
                    ELSE IF ~base64OriginalOk(keyshare)
                    THEN Throws(<<"invalid input">>)
                    ELSE LET app == from_base64_original(keyshare)
                         IN IF ~(decodable(app) /\ jsonOk(decode(app)))
                            THEN Throws(<<"Unexpected token in JSON">>)
                            ELSE LET appData == JSONparse(decode(app))
                                 IN IF Get(appData, K_x2).t = "undefined"
                                    THEN Throws(<<"Cannot read properties of undefined (reading 'scalar')">>)
                                    ELSE LET scalar == Get(Get(appData, K_x2), K_scalar)
                                         IN IF scalar.t # "string" \/ ~isHexString(scalar.s)
                                            THEN Throws(<<"Value must be a hexadecimal string.">>)
                                            ELSE Returns([x1 |-> hexToBigInt(x1Hex.s),
                                                          x2 |-> hexToBigInt(scalar.s)])

Thrown(message) == [thrown |-> TRUE, message |-> message]

\* The call threw while working on the entry at index idx.
FailEntry(op, message) ==
    LET after == AfterEntryError(idx, Len(Wallet(backup)))
    IN /\ pc' = after.pc
       /\ idx' = after.idx
       /\ error' = Thrown(Uncaught(message, Wallet(backup)[idx]))
       /\ steps' = Append(steps, Step(op, idx, FALSE))

\* index.ts:155-160
Verify ==
    /\ pc = "verify"
    /\ LET verified == verifyChecksum(backup)
           after == AfterVerify(verified, Len(Wallet(backup)))
       IN /\ mnemonicPhrase' = trim(mnemonicPhrase)
          /\ pc' = after.pc
          /\ idx' = after.idx
          /\ error' = IF after.pc = "failed"
                      THEN Thrown(<<"Invalid backup data, checksum mismatch">>)
                      ELSE NoError
          /\ steps' = Append(steps, Step("verifyChecksum", 0, verified))
    /\ UNCHANGED <<backup, entropyHex, data, privateKey, privateKeys, result,
                   console, evars, dvars>>

\* index.ts:163-170
DeriveEntropy ==
    /\ pc = "entropy"
    /\ LET walletBackup == Wallet(backup)[idx]
           salt == split(Field(walletBackup, K_remote))[1]
       IN IF ~hexToBytesOk(salt)
          THEN /\ FailEntry("getEntropy", <<"Value must be a hexadecimal string.">>)
               /\ UNCHANGED entropyHex
          ELSE LET derived == getEntropy(mnemonicPhrase, SNAP_ID,
                                         BytesToString(hexToBytes(salt)))
               IN IF ~derived.ok
                  THEN /\ FailEntry("getEntropy", derived.message)
                       /\ UNCHANGED entropyHex
                  ELSE /\ entropyHex' = derived.value
                       /\ pc' = "decrypt"
                       /\ steps' = Append(steps, Step("getEntropy", idx, TRUE))
                       /\ UNCHANGED <<idx, error>>
    /\ UNCHANGED <<mnemonicPhrase, backup, data, privateKey, privateKeys,
                   result, console, evars, dvars>>

\* index.ts:173
Decrypt ==
    /\ pc = "decrypt"
    /\ LET walletBackup == Wallet(backup)[idx]
           opened == decSnapBackup(entropyHex, Field(walletBackup, K_remote))
       IN IF ~opened.ok
          THEN /\ FailEntry("decSnapBackup", opened.message)
               /\ UNCHANGED data
          ELSE /\ data' = opened.value
               /\ pc' = "combine"
               /\ steps' = Append(steps, Step("decSnapBackup", idx, TRUE))
               /\ UNCHANGED <<idx, error>>
    /\ UNCHANGED <<mnemonicPhrase, backup, entropyHex, privateKey, privateKeys,
                   result, console, evars, dvars>>

\* index.ts:176-208
Combine ==
    /\ pc = "combine"
    /\ LET walletBackup == Wallet(backup)[idx]
           shares == parseShares(data, Field(walletBackup, K_keyshare))
       IN IF ~shares.ok
          THEN /\ FailEntry("combine", shares.message)
               /\ UNCHANGED <<privateKey, privateKeys, console>>
          ELSE LET key == combineShares(shares.value.x1, shares.value.x2)
               IN \E accepted \in PublicKeyOutcomes(key) :
                    /\ privateKey' = key
                    /\ IF ~accepted
                       THEN /\ FailEntry("combine", <<"Invalid private key">>)
                            /\ UNCHANGED <<privateKeys, console>>
                       ELSE LET address == AddressOfKey(key)
                                matches == <<"0", "x">> \o address
                                             = Field(walletBackup, K_address)
                                after == LoopTo(idx + 1, Len(Wallet(backup)))
                            IN IF AssertThrows(matches)
                               THEN /\ FailEntry("combine", <<AssertMessage>>)
                                    /\ UNCHANGED <<privateKeys, console>>
                               ELSE /\ console' = IF matches THEN console
                                                  ELSE Append(console, <<AssertMessage>>)
                                    /\ privateKeys' = push(privateKeys,
                                          [address |-> Field(walletBackup, K_address),
                                           privateKey |-> bigIntToHex(key)])
                                    /\ pc' = after.pc
                                    /\ idx' = after.idx
                                    /\ steps' = Append(steps, Step("combine", idx, TRUE))
                                    /\ UNCHANGED error
    /\ UNCHANGED <<mnemonicPhrase, backup, entropyHex, data, result, evars, dvars>>

\* index.ts:211
Return ==
    /\ pc = "return"
    /\ result' = [returned |-> TRUE, value |-> privateKeys]
    /\ pc' = "done"
    /\ UNCHANGED <<mnemonicPhrase, backup, idx, entropyHex, data, privateKey,
                   privateKeys, error, console, steps, evars, dvars>>

Next == Verify \/ DeriveEntropy \/ Decrypt \/ Combine \/ Return

----------------------------------------------------------------------------
(* Backups exportKeys is called with *)

TimeText ==
    <<"2", "0", "2", "4", "-", "0", "1", "-", "0", "8", "T", "1", "4", ":", "4",
      "6", ":", "2", "9", ".", "3", "1", "9", "9", "3", "3", "Z">>

Entry(address, keyshare, remote) ==
    Obj(<<Member(K_address, Str(address)), Member(K_keyshare, Str(keyshare)),
          Member(K_remote, Str(remote))>>)

Backup(wallet, hashText) ==
    Obj(<<Member(K_time, Str(TimeText)), Member(K_version, Num(1)),
          Member(K_wallet, Arr(wallet)), Member(K_hash, Str(hashText))>>)

Mnemonic1 == <<"m", "1">>
Mnemonic2 == <<"m", "2">>
NoMnemonic == <<"z", "z">>

\* The secret box key the Snap derived for a salt (given in hex) from a phrase.
KeyFor(mnemonic, salt) ==
    SubSeq(BytesOfHex(slice(
        getEntropy(mnemonic, SNAP_ID, BytesToString(hexToBytes(salt))).value, 2)),
        1, crypto_secretbox_KEYBYTES)

\* The cloud-side blob: salt, nonce and the sealed document, for a document
\* sealed under the key of sealSalt.
RemoteOf(salt, nonce, document, sealSalt) ==
    salt \o <<".">> \o nonce \o <<".">>
        \o to_base64_url(crypto_secretbox_easy(stringToBytes(document),
               BytesOfHex(nonce), KeyFor(Mnemonic1, sealSalt)))

KeyshareOf(x2Hex) == to_base64_original(stringToBytes(<<"y">> \o x2Hex))

AddressFor(x1Hex, x2Hex) ==
    <<"0", "x">> \o AddressOfKey((hexToBigInt(x1Hex) * hexToBigInt(x2Hex)) % CurveN)

SaltA == <<"a", "b">>
SaltB == <<"0", "x", "C", "d", "1">>
Nonce1 == <<"0", "1">>
Nonce2 == <<"f", "e">>

\* An entry whose shares combine to the key of its address.
GoodEntry(x1Hex, x2Hex, salt, nonce) ==
    Entry(AddressFor(x1Hex, x2Hex), KeyshareOf(x2Hex),
          RemoteOf(salt, nonce, <<"x">> \o x1Hex, salt))

Good1 == GoodEntry(<<"0", "2">>, <<"0", "3">>, SaltA, Nonce1)
Good2 == GoodEntry(<<"f", "c">>, <<"0", "x", "7", "f", "f", "f">>, SaltB, Nonce2)
\* The shares of Good2 under the address of Good1.
Mismatched ==
    Entry(Field(Good1, K_address), Field(Good2, K_keyshare), Field(Good2, K_remote))
\* A salt that is no hex string.
BadSalt ==
    Entry(Field(Good1, K_address), Field(Good1, K_keyshare),
          <<"z", "z">> \o slice(Field(Good1, K_remote), 2))
\* Two components instead of three.
TwoParts ==
    Entry(Field(Good2, K_address), Field(Good2, K_keyshare),
          SaltA \o <<".">> \o Nonce1)
\* Sealed under the key of another salt.
WrongKey ==
    Entry(Field(Good1, K_address), Field(Good1, K_keyshare),
          RemoteOf(SaltA, Nonce1, <<"x", "0", "2">>, SaltB))

EntryPool == { Good1, Good2, Mismatched, BadSalt, TwoParts, WrongKey }

WalletsUpTo(pool, n) == UNION { [1..k -> pool] : k \in 0..n }

\* The stored checksum that verifies, as 64 lowercase hex digits.
GoodHash(wallet) == HexOf(ComputedHash(Backup(wallet, <<>>)))

UpperHex(s) ==
    [i \in 1..Len(s) |-> IF InSeq(s[i], HexDigits)
                         THEN HexUpper[IndexIn(s[i], HexDigits)] ELSE s[i]]

\* Another digit in the first place.
Altered(s) == <<IF s[1] = "0" THEN "1" ELSE "0">> \o Tail(s)

PipeInit(backups, mnemonics) ==
    /\ backup \in backups
    /\ mnemonicPhrase \in mnemonics
    /\ pc = "verify"
    /\ idx = 0
    /\ entropyHex = <<>>
    /\ data = <<>>
    /\ privateKey = -1
    /\ privateKeys = <<>>
    /\ result = NoResult
    /\ error = NoError
    /\ console = <<>>
    /\ steps = <<>>

\* Backups of up to MaxWallet entries, good and bad ones in any order.
HashesOfSpec(w) == { GoodHash(w), <<"0", "x">> \o GoodHash(w), Altered(GoodHash(w)) }
BackupsOfSpec ==
    UNION { { Backup(w, h) : h \in HashesOfSpec(w) } :
              w \in WalletsUpTo(EntryPool, MaxWallet) }

Init ==
    /\ PipeInit(BackupsOfSpec,
                { Mnemonic1, <<" ">> \o Mnemonic1 \o <<" ", " ">>, Mnemonic2,
                  NoMnemonic })
    /\ EncIdle
    /\ DerIdle

Spec == Init /\ [][Next]_vars

----------------------------------------------------------------------------
(* One-entry backups: every way a record can be off *)

FourParts ==
    Entry(Field(Good1, K_address), Field(Good1, K_keyshare),
          Field(Good1, K_remote) \o <<".", "z", "z">>)
OnePart == Entry(Field(Good1, K_address), Field(Good1, K_keyshare), SaltA)
EmptyRemote == Entry(Field(Good1, K_address), Field(Good1, K_keyshare), <<>>)
\* A nonce that is no hex.
BadNonce ==
    Entry(Field(Good1, K_address), Field(Good1, K_keyshare),
          SaltA \o <<".", "0", "g", ".">> \o split(Field(Good1, K_remote))[3])
\* A ciphertext that is no URL-safe Base64.
BadCipher ==
    Entry(Field(Good1, K_address), Field(Good1, K_keyshare),
          SaltA \o <<".">> \o Nonce1 \o <<".", "+", "+", "+", "+">>)
\* A sealed document that is no JSON, one without keyShareData, one without x1.
SealedDoc(document) ==
    Entry(Field(Good1, K_address), Field(Good1, K_keyshare),
          RemoteOf(SaltA, Nonce1, document, SaltA))
\* A keyshare that is no Base64, one that is no JSON, one without a scalar.
BadKeyshare(keyshare) ==
    Entry(Field(Good1, K_address), keyshare, Field(Good1, K_remote))
\* The salt "0x", which is no bytes.
EmptySalt == GoodEntry(<<"0", "5">>, <<"0", "7">>, <<"0", "x">>, Nonce1)
\* Shares whose product is a multiple of the curve order.
ZeroKey == GoodEntry(<<"f", "b">>, <<"0", "3">>, SaltA, Nonce1)

RecordPool ==
    { Good1, Good2, Mismatched, BadSalt, TwoParts, WrongKey, FourParts, OnePart,
      EmptyRemote, BadNonce, BadCipher, ZeroKey, EmptySalt,
      SealedDoc(<<"j">>), SealedDoc(<<"e">>), SealedDoc(<<"u">>),
      SealedDoc(<<"x", "0", "g">>),
      BadKeyshare(<<"!", "!", "!", "!">>),
      BadKeyshare(to_base64_original(stringToBytes(<<"j">>))),
      BadKeyshare(to_base64_original(stringToBytes(<<"e">>))),
      BadKeyshare(to_base64_original(stringToBytes(<<"u">>))) }

\* Stored checksums: the full hash, bare and behind "0x" or two of them, the
\* hash without its first two digits, in upper case, with a digit changed,
\* and nothing.
HashesOfRecord(w) ==
    { GoodHash(w), <<"0", "x">> \o GoodHash(w), <<"0", "x", "0", "x">> \o GoodHash(w),
      slice(GoodHash(w), 2), <<"0", "x">> \o slice(GoodHash(w), 2),
      UpperHex(GoodHash(w)), Altered(GoodHash(w)), <<>> }

BackupsOfRecord ==
    UNION { { Backup(w, h) : h \in HashesOfRecord(w) } :
              w \in WalletsUpTo(RecordPool, 1) }

InitRecord ==
    /\ PipeInit(BackupsOfRecord, { Mnemonic1, Mnemonic2 })
    /\ EncIdle
    /\ DerIdle

SpecRecord == InitRecord /\ [][Next]_vars

----------------------------------------------------------------------------
(* One-entry backups: every pair of shares *)

ShareValues ==
    (0..MaxShare) \cup { CurveN - 1, CurveN, CurveN + 1, 2 * CurveN + 3, 32767 }

ShareEntries ==
    { GoodEntry(ToHexDigits(x1), ToHexDigits(x2), SaltA, Nonce1) :
        x1 \in ShareValues, x2 \in ShareValues }

HashesOfCombine(w) == { GoodHash(w) }

BackupsOfCombine ==
    UNION { { Backup(w, h) : h \in HashesOfCombine(w) } :
              w \in WalletsUpTo(ShareEntries, 1) }

InitCombine ==
    /\ PipeInit(BackupsOfCombine, { Mnemonic1 })
    /\ EncIdle
    /\ DerIdle

SpecCombine == InitCombine /\ [][Next]_vars

----------------------------------------------------------------------------
(* exportKeys: what the caller observes *)

\* The steps that work on a wallet entry.
EntrySteps == { k \in 1..Len(steps) : steps[k].op # "verifyChecksum" }

\* C1: the checksum check is a gate.  The first thing a call does is
\* verifyChecksum; every step on an entry comes after a verification that
\* returned true; and when verification returned false the call has thrown
\* "Invalid backup data, checksum mismatch" with no entropy derived, nothing
\* decrypted, no shares combined and no key exported.
C1_ChecksumGate ==
    /\ \A k \in EntrySteps : k > 1 /\ steps[1] = Step("verifyChecksum", 0, TRUE)
    /\ pc # "verify" =>
          LET verified == verifyChecksum(backup)
          IN /\ Len(steps) >= 1
             /\ steps[1] = Step("verifyChecksum", 0, verified)
             /\ ~verified =>
                   /\ pc = "failed"
                   /\ error = Thrown(<<"Invalid backup data, checksum mismatch">>)
                   /\ EntrySteps = {}
                   /\ entropyHex = <<>>
                   /\ data = <<>>
                   /\ privateKey = -1
                   /\ privateKeys = <<>>
                   /\ ~result.returned

\* A backup of MaxWallet entries whose checksum did not verify was refused.
C1_Witness ==
    /\ pc = "failed"
    /\ steps = <<Step("verifyChecksum", 0, FALSE)>>
    /\ Len(Wallet(backup)) = MaxWallet

\* C2: the first error of an entry ends the call.  A step that failed is the
\* last step taken, it worked on the entry at idx, no step worked on a later
\* entry, the call has thrown and returns nothing, whatever keys were built
\* for the entries before.
C2_AbortOnFirstError ==
    /\ \A k \in EntrySteps :
          ~steps[k].ok => /\ k = Len(steps)
                          /\ pc = "failed"
                          /\ idx = steps[k].i
                          /\ error.thrown
                          /\ ~result.returned
                          /\ Len(privateKeys) = idx - 1
    /\ pc = "failed" => /\ ~steps[Len(steps)].ok
                        /\ \A k \in 1..Len(steps) : steps[k].i <= idx
                        /\ ~result.returned
    /\ result.returned => /\ ~error.thrown
                          /\ \A k \in 1..Len(steps) : steps[k].ok

\* The second entry failed after the key of the first had been built.
C2_Witness ==
    /\ pc = "failed"
    /\ idx = 2
    /\ Len(privateKeys) = 1
    /\ Len(Wallet(backup)) >= 2

\* C3: a call that returns gives one key for each wallet entry, in the order
\* of the entries: the address of the i-th key is the address of the i-th
\* entry.  While the call runs, the keys built so far are those of the entries
\* before idx, in order.
C3_OutputOrder ==
    /\ \A i \in 1..Len(privateKeys) :
          /\ i <= Len(Wallet(backup))
          /\ privateKeys[i].address = Field(Wallet(backup)[i], K_address)
    /\ result.returned =>
          /\ result.value = privateKeys
          /\ Len(result.value) = Len(Wallet(backup))

\* A call returned the keys of two entries with different addresses.
C3_Witness ==
    /\ result.returned
    /\ Len(result.value) = 2
    /\ result.value[1].address # result.value[2].address

\* The addresses the wallet entries claim, as message text.
AddressTexts ==
    { TextOf(Field(Wallet(backup)[i], K_address)) : i \in 1..Len(Wallet(backup)) }

\* What the operation that failed on the entry at idx threw.
ThrownByStep ==
    LET walletBackup == Wallet(backup)[idx]
        op == steps[Len(steps)].op
        salt == split(Field(walletBackup, K_remote))[1]
    IN IF op = "getEntropy"
       THEN IF ~hexToBytesOk(salt) THEN <<"Value must be a hexadecimal string.">>
            ELSE getEntropy(mnemonicPhrase, SNAP_ID,
                            BytesToString(hexToBytes(salt))).message
       ELSE IF op = "decSnapBackup"
       THEN decSnapBackup(entropyHex, Field(walletBackup, K_remote)).message
       ELSE IF ~parseShares(data, Field(walletBackup, K_keyshare)).ok
       THEN parseShares(data, Field(walletBackup, K_keyshare)).message
       ELSE <<"Invalid private key">>

\* C4 as claimed: the error of a failure on a wallet entry carries the address
\* the entry claims.
C4_ErrorCarriesAddress ==
    (pc = "failed" /\ idx >= 1) =>
        \E j \in 1..Len(error.message) :
            error.message[j] = TextOf(Field(Wallet(backup)[idx], K_address))

\* C4, amended: the error of a failure on a wallet entry reaches the caller as
\* the failing operation threw it; exportKeys adds nothing to it, and no part
\* of it is the address of an entry.
C4_ErrorAsThrown ==
    (pc = "failed" /\ idx >= 1) =>
        /\ error = Thrown(ThrownByStep)
        /\ \A j \in 1..Len(error.message) : error.message[j] \notin AddressTexts

\* The second entry of a backup failed to decrypt.
C4_Witness ==
    /\ pc = "failed"
    /\ idx = 2
    /\ steps[Len(steps)] = Step("decSnapBackup", 2, FALSE)

\* The address of the key an exported entry holds.
ComputedAddress(exported) ==
    <<"0", "x">> \o AddressOfKey(hexToBigInt(exported.privateKey))

\* The entries built so far whose key is not the key of the claimed address.
MismatchedKeys ==
    { i \in 1..Len(privateKeys) :
        ComputedAddress(privateKeys[i]) # Field(Wallet(backup)[i], K_address) }

\* An address mismatch does not end the call: the entry is appended under the
\* address it claims with the key that was built, its combine step succeeded,
\* the call goes on with the next entry, and no error is the mismatch.
MismatchNotFatal ==
    /\ error.thrown => error.message # <<AssertMessage>>
    /\ \A i \in MismatchedKeys :
          /\ privateKeys[i].address = Field(Wallet(backup)[i], K_address)
          /\ privateKeys[i].address # ComputedAddress(privateKeys[i])
          /\ \E k \in 1..Len(steps) : steps[k] = Step("combine", i, TRUE)
          /\ i < Len(Wallet(backup)) =>
                \/ pc = "entropy" /\ idx = i + 1
                \/ \E k \in 1..Len(steps) : steps[k].op = "getEntropy"
                                            /\ steps[k].i = i + 1
          /\ i = Len(Wallet(backup)) => pc \in {"return", "done"}
    /\ result.returned => result.value = privateKeys

\* C7 as claimed: an address mismatch is not fatal, and it is reported as a
\* condition attached to the entry: the exported entry holds it, or a report
\* names the entry.
C7_MismatchAttached ==
    /\ MismatchNotFatal
    /\ \A i \in MismatchedKeys :
          \/ DOMAIN privateKeys[i] # {"address", "privateKey"}
          \/ \E c \in 1..Len(console) : \E j \in 1..Len(console[c]) :
                console[c][j] = TextOf(privateKeys[i].address)

\* C7, amended: an address mismatch is not fatal; the entry is appended under
\* the address it claims and later entries are worked on.  The mismatch is
\* reported by one console assertion line for each mismatching entry, the same
\* fixed text every time, which does not name the entry; the exported entry
\* holds an address and a private key and nothing else.
C7_MismatchNotFatal ==
    /\ MismatchNotFatal
    /\ Len(console) = Cardinality(MismatchedKeys)
    /\ \A c \in 1..Len(console) : console[c] = <<AssertMessage>>
    /\ \A i \in 1..Len(privateKeys) :
          DOMAIN privateKeys[i] = {"address", "privateKey"}

\* A call returned two keys, the first of them not the key of its address.
C7_Witness ==
    /\ result.returned
    /\ Len(result.value) = 2
    /\ 1 \in MismatchedKeys
    /\ Len(console) >= 1

----------------------------------------------------------------------------
(* decSnapBackup and verifyChecksum: what the caller observes *)

\* decSnapBackup threw for the entry at idx.
DecryptFailed ==
    /\ pc = "failed"
    /\ idx >= 1
    /\ steps[Len(steps)].op = "decSnapBackup"

\* The number of '.'-delimited components of the record of the entry at idx.
Components == Len(split(Field(Wallet(backup)[idx], K_remote)))

\* C5 as claimed: a record that has not exactly 3 components fails with an
\* error of a kind of its own, not the kind of a failure to decode or open a
\* record of 3 components, whose message starts with
\* "Failed to decrypt backup data: ".
C5_MalformedDistinctKind ==
    (DecryptFailed /\ Components # 3) =>
        error.message[1] # "Failed to decrypt backup data: "

\* C5, amended: decSnapBackup fails for every record that has not exactly 3
\* components, with the same kind of error as a failure to decode or open a
\* record of 3 components: an Error whose message starts with
\* "Failed to decrypt backup data: ".  Only the cause after that prefix tells
\* the two apart: it is "Invalid backup data" exactly when the record has not
\* 3 components.
C5_MalformedWrapped ==
    /\ DecryptFailed =>
          /\ Len(error.message) = 2
          /\ error.message[1] = "Failed to decrypt backup data: "
          /\ (error.message[2] = "Invalid backup data") = (Components # 3)
    /\ \A k \in 1..Len(steps) :
          (steps[k].op = "decSnapBackup" /\ steps[k].ok) =>
              Len(split(Field(Wallet(backup)[steps[k].i], K_remote))) = 3

\* decSnapBackup threw for a record of 4 components.
C5_Witness == DecryptFailed /\ Components = 4

\* The stored checksum without one leading "0x".
StoredChecksum ==
    LET stored == Get(backup, K_hash).s
    IN IF Len(stored) >= 2 /\ SubSeq(stored, 1, 2) = <<"0", "x">>
       THEN SubSeq(stored, 3, Len(stored)) ELSE stored

\* C6 as claimed: verifyChecksum returns true exactly when the stored
\* checksum, without one leading "0x", is the lowercase hex of the computed
\* hash without its first two hex digits.
C6_ChecksumDropsTwoDigits ==
    pc # "verify" =>
        steps[1].ok =
            (StoredChecksum = SubSeq(HexOf(ComputedHash(backup)), 3, 64))

\* C6, amended: verifyChecksum returns true exactly when the stored checksum,
\* without one leading "0x", is the lowercase hex of the whole computed hash,
\* all 64 digits of it; what is dropped from the computed side is the "0x"
\* the hex rendering starts with.
C6_ChecksumFullHash ==
    pc # "verify" =>
        /\ steps[1].op = "verifyChecksum"
        /\ steps[1].ok = (StoredChecksum = HexOf(ComputedHash(backup)))
        /\ steps[1].ok => Len(StoredChecksum) = 64

\* A checksum stored behind "0x" verified for a backup of one entry.
C6_Witness ==
    /\ pc # "verify"
    /\ steps[1].ok
    /\ StoredChecksum # Get(backup, K_hash).s
    /\ Len(Wallet(backup)) = 1

----------------------------------------------------------------------------
(* The private key of an entry *)

\* The shares of the entry that was combined.
SharesRead == parseShares(data, Field(Wallet(backup)[1], K_keyshare)).value

\* C9: the private key built from the shares x1 and x2 is (x1 * x2) mod n,
\* it lies in 0..n-1, it is the product mod n of the shares reduced mod n,
\* and the key exported for the entry is the hex text of that number.
C9_ProductModN ==
    privateKey # -1 =>
        LET x1 == SharesRead.x1
            x2 == SharesRead.x2
        IN /\ x1 \in ShareValues
           /\ x2 \in ShareValues
           /\ privateKey = (x1 * x2) % CurveN
           /\ privateKey \in 0..(CurveN - 1)
           /\ privateKey = ((x1 % CurveN) * (x2 % CurveN)) % CurveN
           /\ \A i \in 1..Len(privateKeys) :
                 /\ hexToBigInt(privateKeys[i].privateKey) = privateKey
                 /\ privateKeys[i].privateKey = bigIntToHex(privateKey)

\* A key was exported for two shares above the curve order.
C9_Witness ==
    /\ result.returned
    /\ Len(result.value) = 1
    /\ SharesRead.x1 > CurveN
    /\ SharesRead.x2 > CurveN
    /\ SharesRead.x1 # SharesRead.x2

====
